---- MODULE Spec2Model ----
(***************************************************************************)
(* Customer balance tracker (chatbot.py): a CSV file of customer rows, and *)
(* the three mutations that each load the file, change the table in memory *)
(* and write the whole table back.                                         *)
(*                                                                         *)
(* Amounts are whole currency units (for which pandas' float formatting    *)
(* and parsing is exact).  Names are sequences of one-character strings.   *)
(* A row's field blank is the set of its cells that are empty in the file  *)
(* (NaN in the DataFrame); the number kept for an empty cell is 0.         *)
(***************************************************************************)
EXTENDS Integers, Sequences, FiniteSets, TLC

\* ---------------------------------------------------------------- bounds
MaxRows == 2        \* rows the table may hold
MaxAmount == 1      \* largest amount_owed / payment_now entered in a form
MaxPaid == 2        \* cap on the accumulated BALANCE PAID
MaxSaves == 3       \* interleaved specification: number of saves explored

\* ---------------------------------------------------------------- inputs
Amounts == 0..MaxAmount
\* set_balance_manual: None is <<>>, a number x is <<x>> (a negative one and
\* one above any debt)
None == <<>>
Overrides == {None} \cup {<<x>> : x \in {-1, MaxAmount + 1}}
\* what the table editor did to a BALANCE AS OF TODAY cell: left it as
\* loaded, emptied it, or typed a number over it
Keep == [kind |-> "keep", v |-> 0]
Emptied == [kind |-> "clear", v |-> 0]
Typed(x) == [kind |-> "type", v |-> x]
EditVals == {Keep, Emptied} \cup {Typed(x) : x \in {-1, 1}}
\* the row the editor appends (num_rows = "dynamic"): none, or one whose
\* balance cell is empty or typed; its other cells cannot be typed in
NewRows == {<<>>} \cup {<<e>> : e \in EditVals \ {Keep}}
\* datetime.now() as read by an operation
Times == {1}

NaN == <<"<nan>">>
NameInputs ==
  { <<" ">>,
    <<"a", "l">>, <<" ", "A", "L", " ">>,
    <<"b", "o">>,
    <<"n", "/", "a">> }

\* ------------------------------------------------------ str.strip / title
IsSpace(c) == c = " "
UpperOf(c) ==
  CASE c = "a" -> "A" [] c = "l" -> "L" [] c = "b" -> "B"
    [] c = "o" -> "O" [] c = "n" -> "N" [] OTHER -> c
LowerOf(c) ==
  CASE c = "A" -> "a" [] c = "L" -> "l" [] c = "B" -> "b"
    [] c = "O" -> "o" [] c = "N" -> "n" [] OTHER -> c
IsCased(c) == UpperOf(c) # c \/ LowerOf(c) # c

RECURSIVE LStrip(_)
LStrip(s) == IF s # <<>> /\ IsSpace(Head(s)) THEN LStrip(Tail(s)) ELSE s
RECURSIVE RStrip(_)
RStrip(s) ==
  IF s # <<>> /\ IsSpace(s[Len(s)]) THEN RStrip(SubSeq(s, 1, Len(s) - 1)) ELSE s
Strip(s) == RStrip(LStrip(s))

\* str.title(): a cased character is upper-cased when the character before it
\* is not cased, lower-cased otherwise; other characters are kept.
Title(s) ==
  [i \in 1..Len(s) |->
     IF ~IsCased(s[i]) THEN s[i]
     ELSE IF i > 1 /\ IsCased(s[i - 1]) THEN LowerOf(s[i]) ELSE UpperOf(s[i])]

Key(name) == Title(Strip(name))

\* ------------------------------------------------------------ csv cells
\* pandas.read_csv turns an empty cell and its default NA markers into NaN;
\* of the strings over this alphabet that Key can produce, "N/A" is one.
NAStrings == { <<>>, <<"N", "/", "A">>, <<"n", "/", "a">>, <<"N", "A">> }
ReadName(t) == IF t \in NAStrings THEN NaN ELSE t
\* DataFrame.to_csv writes NaN as the empty string
WriteName(n) == IF n = NaN THEN <<>> ELSE n

Cleared == "Cleared"
Pending == "Pending"
compute_status(balance) == IF balance <= 0 THEN Cleared ELSE Pending
\* compute_status of a cell: float('nan') <= 0 is False
StatusOfCell(r) == IF "bal" \in r.blank THEN Pending ELSE compute_status(r.bal)

Max(a, b) == IF a >= b THEN a ELSE b
Clip0(x) == Max(x, 0)

\* ------------------------------------------------------------ variables
VARIABLES
  file,     \* customers.csv: [exists, rows]; a row is one CSV line
  last,     \* the last action run and what it reported; history: kept, the
            \* rows the table editor kept, and stale, the saves made by
            \* others between a session's load and its save
  ledger,   \* history (one session at a time): per row, the key and amount
            \* it was created with, the initial payment plus those applied
  proc,     \* interleaved sessions: position, arguments, df as loaded, and
            \* (history) the number of saves there had been at the load
  saves     \* history (interleaved sessions): save_data calls so far

vars == <<file, last, ledger, proc, saves>>

Sessions == {1, 2}

\* ------------------------------------------------------- file handling
Header == [exists |-> TRUE, hasStatus |-> TRUE, rows |-> <<>>]

\* ensure_file: a missing file is created with the header line only
ensure_file(f) == IF f.exists THEN f ELSE Header

\* pd.to_numeric(...).fillna(0.0): an empty cell becomes 0.0
ToNumeric(r, col, x) == IF col \in r.blank THEN 0 ELSE x

\* load_data: the DataFrame read from the file.  The name cell is parsed by
\* read_csv, BALANCE AS OF TODAY is recomputed for every row, STATUS is
\* computed only when the file has no STATUS column.
load_data(f) ==
  LET g == ensure_file(f) IN
  [i \in 1..Len(g.rows) |->
     LET r == g.rows[i]
         owed == ToNumeric(r, "owed", r.owed)
         paid == ToNumeric(r, "paid", r.paid)
         b == Clip0(owed - paid)
     IN [date |-> r.date, name |-> ReadName(r.name), owed |-> owed,
         paid |-> paid, bal |-> b,
         status |-> IF g.hasStatus THEN r.status ELSE compute_status(b),
         blank |-> r.blank \cap {"date"}]]

\* save_data: the six columns in their fixed order, the whole table rewritten
save_data(df) ==
  [exists |-> TRUE, hasStatus |-> TRUE,
   rows |-> [i \in 1..Len(df) |->
               [date |-> df[i].date, name |-> WriteName(df[i].name),
                owed |-> df[i].owed, paid |-> df[i].paid,
                bal |-> df[i].bal, status |-> df[i].status,
                blank |-> df[i].blank]]]

Names(df) == {df[i].name : i \in 1..Len(df)}

\* df.index[df["CUSTOMER NAME"] == key][0]
IndexOf(df, key) ==
  CHOOSE i \in 1..Len(df) :
    df[i].name = key /\ \A j \in 1..(i - 1) : df[j].name # key

\* ------------------------------------------------------- business logic
\* (variant: the duplicate check left out)
AddCheck_NoDuplicateCheck(df, key) ==
  IF key = <<>> THEN "enter_name" ELSE "ok"

\* add_new_customer, lines 51-56: the warning it returns with, or "ok"
AddCheck(df, key) ==
  IF key = <<>> THEN "enter_name"
  ELSE IF key \in Names(df) THEN "exists"
  ELSE "ok"

\* (variant: the balance not clipped at zero)
AddRow_Unclipped(df, key, amount_owed, payment_now, now) ==
  LET balance_paid == payment_now
      balance_as_of_today == amount_owed - balance_paid
  IN Append(df, [date |-> now, name |-> key, owed |-> amount_owed,
                 paid |-> balance_paid, bal |-> balance_as_of_today,
                 status |-> compute_status(balance_as_of_today),
                 blank |-> {}])

\* add_new_customer, lines 57-69: the table with the new row appended
AddRow(df, key, amount_owed, payment_now, now) ==
  LET balance_paid == payment_now
      balance_as_of_today == Max(amount_owed - balance_paid, 0)
  IN Append(df, [date |-> now, name |-> key, owed |-> amount_owed,
                 paid |-> balance_paid, bal |-> balance_as_of_today,
                 status |-> compute_status(balance_as_of_today),
                 blank |-> {}])

\* update_customer_add_payment, lines 76-81
UpdateCheck(df, key) ==
  IF key = <<>> THEN "select"
  ELSE IF key \notin Names(df) THEN "not_found"
  ELSE "ok"

\* (variant: the payment replaces the accumulator)
NewPaid_Overwrite(prev_paid, payment_now) == payment_now

\* update_customer_add_payment, lines 84-86
NewPaid(prev_paid, payment_now) == prev_paid + payment_now

\* (variant: the manual balance stored without the clip at zero)
NewBalance_UnclippedOverride(amount_owed, new_paid, set_balance_manual) ==
  IF set_balance_manual = None THEN Max(amount_owed - new_paid, 0)
  ELSE set_balance_manual[1]

\* update_customer_add_payment, lines 88-93
NewBalance(amount_owed, new_paid, set_balance_manual) ==
  LET computed_balance == Max(amount_owed - new_paid, 0)
  IN IF set_balance_manual = None THEN computed_balance
     ELSE Max(set_balance_manual[1], 0)

\* (variant: the payment also taken off AMOUNT OWED)
UpdateRow_ReducesOwed(df, key, payment_now, set_balance_manual, now) ==
  LET idx == IndexOf(df, key)
      new_paid == NewPaid(df[idx].paid, payment_now)
      b == NewBalance(df[idx].owed, new_paid, set_balance_manual)
  IN [df EXCEPT ![idx] = [date |-> now, name |-> df[idx].name,
                          owed |-> df[idx].owed - payment_now,
                          paid |-> new_paid,
                          bal |-> b, status |-> compute_status(b),
                          blank |-> {}]]

\* update_customer_add_payment, lines 82-95: the table with the row updated
UpdateRow(df, key, payment_now, set_balance_manual, now) ==
  LET idx == IndexOf(df, key)
      new_paid == NewPaid(df[idx].paid, payment_now)
      b == NewBalance(df[idx].owed, new_paid, set_balance_manual)
  IN [df EXCEPT ![idx] = [date |-> now, name |-> df[idx].name,
                          owed |-> df[idx].owed, paid |-> new_paid,
                          bal |-> b, status |-> compute_status(b),
                          blank |-> {}]]

\* the rows the editor kept, as their indices in the loaded table
RECURSIVE KeptRows(_, _)
KeptRows(n, keep) ==
  IF n = 0 THEN <<>>
  ELSE IF n \in keep THEN Append(KeptRows(n - 1, keep), n)
  ELSE KeptRows(n - 1, keep)

\* a cell of the BALANCE AS OF TODAY column as the editor returns it
EditCell(r, e) ==
  IF e.kind = "keep" THEN r
  ELSE IF e.kind = "clear" THEN [r EXCEPT !.bal = 0, !.blank = @ \cup {"bal"}]
  ELSE [r EXCEPT !.bal = e.v, !.blank = @ \ {"bal"}]

\* a row added in the editor: every cell empty but, if typed, the balance
AddedRow(e) ==
  EditCell([date |-> 0, name |-> NaN, owed |-> 0, paid |-> 0, bal |-> 0,
            status |-> Pending, blank |-> {"date", "owed", "paid", "bal"}], e)

\* st.data_editor, lines 156-166: the loaded table with rows deleted,
\* balance cells edited and a row added
Editor(df, kept, edits, new) ==
  [j \in 1..Len(kept) |-> EditCell(df[kept[j]], edits[kept[j]])]
    \o [j \in 1..Len(new) |-> AddedRow(new[j])]

\* "Save Edited Table", lines 169-170: clip the edited column (an empty
\* cell stays empty), recompute every status
EditedTable(edited) ==
  [i \in 1..Len(edited) |->
     LET r == [edited[i] EXCEPT !.bal = Clip0(@)]
     IN [r EXCEPT !.status = StatusOfCell(r)]]

\* fallback button, line 178: statuses recomputed on the loaded table
Recomputed(df) ==
  [i \in 1..Len(df) |-> [df[i] EXCEPT !.status = compute_status(df[i].bal)]]

\* ------------------------------------------------------------- initial
NoFile == [exists |-> FALSE, hasStatus |-> FALSE, rows |-> <<>>]
Idle ==
  [pc |-> "idle", key |-> <<>>, a |-> 0, p |-> 0, m |-> None, df |-> <<>>,
   seen |-> 0]
\* what a run that saved reports: the operation, its key and arguments
Report(op, key, a, p, m, res, by) ==
  [op |-> op, key |-> key, a |-> a, p |-> p, m |-> m, res |-> res, by |-> by,
   kept |-> <<>>, stale |-> 0]
\* what a run that returned early reports: the warning and the key
Rejected(op, key, res, by) == Report(op, key, 0, 0, None, res, by)

\* history of a row: what add_new_customer was given, what was paid since
Created(key, amount_owed, payment_now) ==
  [made |-> "add", key |-> key, a |-> amount_owed, sum |-> payment_now]
\* history of a row that the table editor added
Inserted == [made |-> "editor", key |-> NaN, a |-> 0, sum |-> 0]
Applied(l, idx, payment_now) ==
  [l EXCEPT ![idx] = [@ EXCEPT !.sum = @ + payment_now]]

Init ==
  /\ file = NoFile
  /\ last = Report("start", <<>>, 0, 0, None, "none", 0)
  /\ ledger = <<>>
  /\ proc = [s \in Sessions |-> Idle]
  /\ saves = 0

\* ------------------------------------------- actions, one session at a time
\* add_new_customer(name, amount_owed, payment_now)
AddNewCustomer ==
  \E name \in NameInputs, amount_owed \in Amounts, payment_now \in Amounts,
     now \in Times :
    LET df == load_data(file)
        key == Key(name)
        res == AddCheck(df, key)
    IN /\ res = "ok" => Len(df) < MaxRows
       /\ file' = IF res = "ok"
                  THEN save_data(AddRow(df, key, amount_owed, payment_now, now))
                  ELSE ensure_file(file)
       /\ ledger' = IF res = "ok"
                    THEN Append(ledger, Created(key, amount_owed, payment_now))
                    ELSE ledger
       /\ last' = IF res = "ok"
                  THEN Report("add", key, amount_owed, payment_now, None,
                              "success", 0)
                  ELSE Rejected("add", key, res, 0)
       /\ UNCHANGED <<proc, saves>>

\* update_customer_add_payment(name, payment_now, set_balance_manual)
UpdateCustomerAddPayment ==
  \E name \in NameInputs, payment_now \in Amounts,
     set_balance_manual \in Overrides, now \in Times :
    LET df == load_data(file)
        key == Key(name)
        res == UpdateCheck(df, key)
    IN /\ res = "ok" =>
            NewPaid(df[IndexOf(df, key)].paid, payment_now) <= MaxPaid
       /\ file' = IF res = "ok"
                  THEN save_data(UpdateRow(df, key, payment_now,
                                           set_balance_manual, now))
                  ELSE ensure_file(file)
       /\ ledger' = IF res = "ok"
                    THEN Applied(ledger, IndexOf(df, key), payment_now)
                    ELSE ledger
       /\ last' = IF res = "ok"
                  THEN Report("pay", key, 0, payment_now, set_balance_manual,
                              "success", 0)
                  ELSE Rejected("pay", key, res, 0)
       /\ UNCHANGED <<proc, saves>>

\* "View / Edit Table": the loaded table, its BALANCE AS OF TODAY column
\* edited, then "Save Edited Table"
SaveEditedTable ==
  LET df == load_data(file) IN
  /\ df # <<>>
  /\ \E keep \in SUBSET (1..Len(df)), edits \in [1..Len(df) -> EditVals],
        new \in NewRows :
       LET kept == KeptRows(Len(df), keep) IN
       /\ \A i \in 1..Len(df) : i \notin keep => edits[i] = Keep
       /\ Len(kept) + Len(new) <= MaxRows
       /\ file' = save_data(EditedTable(Editor(df, kept, edits, new)))
       /\ ledger' = [j \in 1..Len(kept) |-> ledger[kept[j]]]
                      \o [j \in 1..Len(new) |-> Inserted]
       /\ last' = [Report("reconcile", <<>>, 0, 0, None, "success", 0)
                     EXCEPT !.kept = kept]
  /\ UNCHANGED <<proc, saves>>

\* a page that only shows the table (lines 117, 148, 191): load_data
ViewTable ==
  /\ file' = ensure_file(file)
  /\ last' = Report("view", <<>>, 0, 0, None, "shown", 0)
  /\ UNCHANGED <<ledger, proc, saves>>

\* "Recompute statuses and save (no edits)", the page without the editor
RecomputeAndSave ==
  LET df == load_data(file) IN
  /\ df # <<>>
  /\ file' = save_data(Recomputed(df))
  /\ last' = Report("recompute", <<>>, 0, 0, None, "success", 0)
  /\ UNCHANGED <<ledger, proc, saves>>

Next ==
  \/ AddNewCustomer
  \/ UpdateCustomerAddPayment
  \/ SaveEditedTable
  \/ RecomputeAndSave
  \/ ViewTable

Spec == Init /\ [][Next]_vars

\* add_new_customer and update_customer_add_payment calls only
NextLedger ==
  \/ AddNewCustomer
  \/ UpdateCustomerAddPayment

SpecLedger == Init /\ [][NextLedger]_vars

\* ------------------------------------------ actions, sessions interleaved
\* Each session runs one script run at a time: ensure_file's test, the
\* creation of a missing file, read_csv with the checks, then the in-memory
\* change and save_data; nothing is locked in between.

\* (variant: the table read again just before the save)
Snapshot_Reloaded(s) == load_data(file)

\* runs that passed their checks and have not saved yet
Running == {s \in Sessions : proc[s].pc \in {"add", "pay"}}
\* a run is started only if the saves explored leave room for its own
Room == saves + Cardinality(Running) < MaxSaves

\* the DataFrame a session's save is computed from
Snapshot(s) == proc[s].df

\* ensure_file, line 20: os.path.exists(FILE_NAME)
CheckFile(s) ==
  /\ proc[s].pc = "idle"
  /\ proc' = [proc EXCEPT ![s].pc = IF file.exists THEN "read" ELSE "create"]
  /\ UNCHANGED <<file, last, ledger, saves>>

\* ensure_file, lines 21-22: the header-only file written over the path
CreateFile(s) ==
  /\ proc[s].pc = "create"
  /\ file' = Header
  /\ proc' = [proc EXCEPT ![s].pc = "read"]
  /\ UNCHANGED <<last, ledger, saves>>

\* add_new_customer, lines 26-56: read_csv and the two checks
LoadForAdd(s) ==
  /\ proc[s].pc = "read"
  /\ \E name \in NameInputs, amount_owed \in Amounts, payment_now \in Amounts :
       LET df == load_data(file)
           key == Key(name)
           res == AddCheck(df, key)
       IN /\ res = "ok" => Len(df) < MaxRows /\ Room
          /\ file' = file
          /\ IF res = "ok"
             THEN /\ proc' = [proc EXCEPT ![s] =
                                [pc |-> "add", key |-> key, a |-> amount_owed,
                                 p |-> payment_now, m |-> None, df |-> df,
                                 seen |-> saves]]
                  /\ last' = last
             ELSE /\ proc' = [proc EXCEPT ![s] = Idle]
                  /\ last' = Rejected("add", key, res, s)
  /\ UNCHANGED <<ledger, saves>>

\* update_customer_add_payment, lines 26-81: read_csv and the two checks
LoadForPay(s) ==
  /\ proc[s].pc = "read"
  /\ \E name \in NameInputs, payment_now \in Amounts,
        set_balance_manual \in Overrides :
       LET df == load_data(file)
           key == Key(name)
           res == UpdateCheck(df, key)
       IN /\ res = "ok" =>
               /\ NewPaid(df[IndexOf(df, key)].paid, payment_now) <= MaxPaid
               /\ Room
          /\ file' = file
          /\ IF res = "ok"
             THEN /\ proc' = [proc EXCEPT ![s] =
                                [pc |-> "pay", key |-> key, a |-> 0,
                                 p |-> payment_now, m |-> set_balance_manual,
                                 df |-> df, seen |-> saves]]
                  /\ last' = last
             ELSE /\ proc' = [proc EXCEPT ![s] = Idle]
                  /\ last' = Rejected("pay", key, res, s)
  /\ UNCHANGED <<ledger, saves>>

\* add_new_customer, lines 57-71
SaveAdded(s) ==
  /\ proc[s].pc = "add"
  /\ \E now \in Times :
       file' = save_data(AddRow(Snapshot(s), proc[s].key, proc[s].a,
                                proc[s].p, now))
  /\ last' = [Report("add", proc[s].key, proc[s].a, proc[s].p, None,
                     "success", s) EXCEPT !.stale = saves - proc[s].seen]
  /\ proc' = [proc EXCEPT ![s] = Idle]
  /\ saves' = saves + 1
  /\ UNCHANGED ledger

\* update_customer_add_payment, lines 82-97
SavePaid(s) ==
  /\ proc[s].pc = "pay"
  /\ \E now \in Times :
       file' = save_data(UpdateRow(Snapshot(s), proc[s].key, proc[s].p,
                                   proc[s].m, now))
  /\ last' = [Report("pay", proc[s].key, 0, proc[s].p, proc[s].m,
                     "success", s) EXCEPT !.stale = saves - proc[s].seen]
  /\ proc' = [proc EXCEPT ![s] = Idle]
  /\ saves' = saves + 1
  /\ UNCHANGED ledger

NextConc ==
  \E s \in Sessions :
    \/ CheckFile(s)
    \/ CreateFile(s)
    \/ LoadForAdd(s)
    \/ LoadForPay(s)
    \/ SaveAdded(s)
    \/ SavePaid(s)

SpecConc == Init /\ [][NextConc]_vars

\* ================================================================ claims
Rows == file.rows
Loaded == load_data(file)

\* C1: in every saved table every row's STATUS is the status derived from
\* that row's BALANCE AS OF TODAY (Cleared iff the balance is <= 0; an
\* empty balance cell is not <= 0).
C1_StatusDerivedInEverySavedRow ==
  \A i \in 1..Len(Rows) :
    Rows[i].status = (IF "bal" \notin Rows[i].blank /\ Rows[i].bal <= 0
                      THEN Cleared ELSE Pending)

\* C2: the table load returns has, in every row, balance_as_of_today =
\* max(amount_owed - balance_paid, 0) and the status derived from it; the
\* stored balance and the stored status are both discarded.
\* An amount_owed or balance_paid cell that is no number counts as 0.
C2_LoadRecomputesBalanceAndStatus ==
  \A i \in 1..Len(Loaded) :
    LET owed == IF "owed" \in Rows[i].blank THEN 0 ELSE Rows[i].owed
        paid == IF "paid" \in Rows[i].blank THEN 0 ELSE Rows[i].paid
    IN /\ Loaded[i].bal = Max(owed - paid, 0)
       /\ Loaded[i].status = compute_status(Max(owed - paid, 0))

\* C3: save(load()) with no mutation in between leaves the persisted table
\* as it was.
C3_RoundTrip ==
  file.exists => save_data(load_data(file)) = file

\* C4: no two rows of the persisted table carry the same name, and no two
\* of them were created under the same normalized name (an add_customer
\* whose normalized name is already there is rejected).
C4_NameUnique ==
  \A i, j \in 1..Len(Rows) :
    i # j => /\ Rows[i].name # Rows[j].name
             /\ ledger[i].key # ledger[j].key

\* C5: a rejected mutation changes nothing.  add_customer with an empty
\* normalized name or with one the loaded table already holds, and
\* apply_payment with one the loaded table does not hold, report a failure
\* and leave every row of the persisted table as it was.
C5_Rejected ==
  \/ /\ last'.op = "add"
     /\ last'.key = <<>> \/ last'.key \in Names(Loaded)
  \/ /\ last'.op = "pay"
     /\ last'.key \notin Names(Loaded)
C5_RejectedChangesNothing ==
  [][C5_Rejected => file'.rows = file.rows /\ last'.res # "success"]_vars

\* a duplicate add_customer was rejected with the one record still there
C5_Witness ==
  /\ last.op = "add" /\ last.res = "exists"
  /\ Len(Rows) = 1 /\ Rows[1].name = last.key

\* C6: apply_payment(name, p, override) on an existing record with stored
\* amount_owed A and balance_paid B persists balance_paid = B + p, balance =
\* max(A - (B + p), 0) without an override and max(override, 0) with one,
\* and the status derived from the persisted balance.
C6_PaymentApplied ==
  [][last'.op = "pay" =>
       \A i \in 1..Len(Loaded) :
         Loaded[i].name = last'.key =>
           LET A == Rows[i].owed
               B == Rows[i].paid
               r == file'.rows[i]
           IN /\ last'.res = "success"
              /\ r.paid = B + last'.p
              /\ r.bal = IF last'.m = None
                         THEN Max(A - (B + last'.p), 0)
                         ELSE Max(last'.m[1], 0)
              /\ r.status = (IF r.bal <= 0 THEN Cleared ELSE Pending)]_vars

\* a payment with an override left a balance that is not max(A - paid, 0)
C6_Witness ==
  /\ last.op = "pay" /\ last.res = "success" /\ last.m # None /\ last.p > 0
  /\ \E i \in 1..Len(Rows) :
       /\ Rows[i].name = last.key
       /\ Rows[i].bal # Max(Rows[i].owed - Rows[i].paid, 0)

\* C7: a successful add_customer(name, amount_owed, payment_now), its
\* normalized name non-empty and not in the loaded table, appends exactly one
\* row with balance_paid = payment_now, balance = max(amount_owed -
\* payment_now, 0) and the derived status (Cleared when payment_now >=
\* amount_owed, Pending otherwise).
C7_CustomerAdded ==
  [][last'.op = "add" /\ last'.key # <<>> /\ last'.key \notin Names(Loaded) =>
       LET n == Len(file'.rows)
           r == file'.rows[n]
       IN /\ last'.res = "success"
          /\ n = Len(Rows) + 1
          /\ r.name = last'.key
          /\ r.blank = {}
          /\ r.owed = last'.a
          /\ r.paid = last'.p
          /\ r.bal = Max(last'.a - last'.p, 0)
          /\ r.status = (IF last'.p >= last'.a THEN Cleared ELSE Pending)]_vars

\* a second customer was added who paid the whole debt at once
C7_Witness ==
  /\ last.op = "add" /\ last.res = "success" /\ last.a > 0 /\ last.p >= last.a
  /\ Len(Rows) = 2
  /\ Rows[2].name = last.key /\ Rows[2].bal = 0 /\ Rows[2].status = Cleared

\* C8: a record's balance_paid never decreases from one saved table to the
\* next (a record the table editor keeps is followed to its new position),
\* and for a record add_customer created it is the initial payment plus the
\* sum of the payments applied to it.
C8_Before ==
  IF last'.op = "reconcile" THEN last'.kept ELSE [j \in 1..Len(Rows) |-> j]
C8_PaidAccumulates ==
  [][/\ \A j \in 1..Len(C8_Before) :
          /\ "paid" \in Rows[C8_Before[j]].blank \/ "paid" \notin file'.rows[j].blank
          /\ file'.rows[j].paid >= Rows[C8_Before[j]].paid
     /\ \A i \in 1..Len(file'.rows) :
          ledger'[i].made = "add" =>
            /\ "paid" \notin file'.rows[i].blank
            /\ file'.rows[i].paid = ledger'[i].sum]_vars

\* a customer created with a payment has received a further payment
C8_Witness ==
  /\ last.op = "pay" /\ last.res = "success" /\ last.p > 0
  /\ \E i \in 1..Len(Rows) :
       /\ Rows[i].name = last.key
       /\ Rows[i].paid = MaxPaid
       /\ Rows[i].paid > last.p

\* C9: amount_owed is immutable after creation: the persisted amount_owed
\* of every record add_customer created is the amount it was created with.
C9_AmountOwedImmutable ==
  \A i \in 1..Len(Rows) :
    ledger[i].made = "add" =>
      "owed" \notin Rows[i].blank /\ Rows[i].owed = ledger[i].a

\* payments exceeding the debt were applied while another customer exists
C9_Witness ==
  /\ Len(Rows) = 2
  /\ Rows[1].owed = 1 /\ Rows[1].paid > Rows[1].owed
  /\ last.op = "pay" /\ last.key = Rows[1].name /\ last.res = "success"

\* C10: last writer wins.  When a session saves after another session has
\* saved since it loaded, it reports success and the persisted table is
\* exactly its own table: the rows of the snapshot it loaded, with its new
\* row appended or its payment applied, and nothing of what was saved in
\* between.
C10_Written(r) == [r EXCEPT !.name = WriteName(r.name)]
C10_OwnTable(s) ==
  LET df == proc[s].df
      n == Len(df)
      out == file'.rows
  IN IF proc[s].pc = "add"
     THEN /\ Len(out) = n + 1
          /\ \A i \in 1..n : out[i] = C10_Written(df[i])
          /\ out[n + 1].name = proc[s].key
          /\ out[n + 1].owed = proc[s].a
          /\ out[n + 1].paid = proc[s].p
     ELSE /\ Len(out) = n
          /\ \A i \in 1..n :
               IF df[i].name = proc[s].key
               THEN /\ out[i].paid = df[i].paid + proc[s].p
                    /\ out[i].owed = df[i].owed
               ELSE out[i] = C10_Written(df[i])
C10_LastWriterWins ==
  [][\A s \in Sessions :
       (/\ proc[s].pc \in {"add", "pay"}
        /\ proc'[s].pc = "idle"
        /\ saves > proc[s].seen)
       => /\ last'.res = "success" /\ last'.by = s
          /\ C10_OwnTable(s)]_vars

\* two add_customer calls both passed the duplicate check and both saved;
\* the table holds the second writer's row only
C10_Witness ==
  /\ saves = 2
  /\ last.op = "add" /\ last.res = "success" /\ last.stale = 1
  /\ Len(Rows) = 1
  /\ \A s \in Sessions : proc[s].pc = "idle"

====
